---- MODULE Spec2Model ----
(***************************************************************************)
(* The stream classification, baselining and anomaly-detection engine of  *)
(* the CAP demo: the metrics processor                                    *)
(* (cap-demo-enhancement/src/processors/metrics_processor/app.py) and the *)
(* security event processor                                               *)
(* (cap-demo-enhancement/src/processors/security_processor/app.py), with  *)
(* the alert dispatcher they invoke                                       *)
(* (cap-demo-enhancement/src/lambda/alert_generator/lambda_function.py).  *)
(*                                                                         *)
(* Conventions.                                                            *)
(*  - A message value is a JSON value: [t |-> "object", fields |-> f],    *)
(*    [t |-> "array", items |-> s], [t |-> "number", n |-> i],            *)
(*    [t |-> "string", s |-> str] or [t |-> "null"].                      *)
(*  - Floats are exact rationals [num |-> a, den |-> b] with b > 0.  A    *)
(*    standard deviation is carried by its square (the variance), so      *)
(*    "stddev > 0" reads "variance > 0" and "z > k" reads "z^2 > k^2";    *)
(*    round() is not applied.                                             *)
(*  - Wall-clock fields (timestamps, partitions, processing_time_ms) are  *)
(*    not carried; a record id keeps its processed_count component.       *)
(*  - The retention sizes of the code (50 samples before a baseline       *)
(*    exists, 1000 samples of history, windows of 60/300/900) enter as    *)
(*    the named sizes below, scaled down so that every threshold is       *)
(*    crossed within the samples a run consumes; the windows stay above  *)
(*    the 10 samples an aggregation pass asks of a window.               *)
(***************************************************************************)
EXTENDS Integers, Sequences, FiniteSets, TLC

\* ------------------------------------------------------------------ sizes

\* app.py:227 `>= 50`: samples a pair needs before its baseline is computed.
BASELINE_MIN_SAMPLES == 2
\* app.py:222-224 `> 1000` / `[-1000:]`: samples of history kept per pair.
HISTORY_CAP == 3
\* app.py:54-56 deque(maxlen=60 / 300 / 900).
WINDOW_1MIN_MAXLEN == 10
WINDOW_5MIN_MAXLEN == 11
WINDOW_15MIN_MAXLEN == 12
\* Samples the baseline store is fed, messages one run of the metrics
\* processor consumes, and events one run of the security processor consumes.
MaxSamples == 5
MaxMessages == 4
MaxEvents == 3
\* Samples of two tenants fed to the sliding windows.
MaxWindowSamples == 12
\* Samples one run of the metrics processor consumes beside its aggregation
\* thread, and silver writes after which that thread starts no further pass.
MaxRunSamples == 11
MaxAggregations == 4
\* Store writes S3 refuses, and alert invocations that raise, in one run.
MaxStoreFailures == 1
MaxAlertFailures == 1
\* Samples in one batch handed to the aggregator.
MaxBatch == 11
\* Ticks of the wall clock.
MaxClock == 2

\* ------------------------------------------------------------ JSON values

JNum(i) == [t |-> "number", n |-> i]
JStr(s) == [t |-> "string", s |-> s]
JNull == [t |-> "null"]
JObject(f) == [t |-> "object", fields |-> f]
JArray(s) == [t |-> "array", items |-> s]

\* Python truthiness of a deserialised message value (`if message.value:`).
Truthy(v) ==
    CASE v.t = "object" -> DOMAIN v.fields # {}
      [] v.t = "array" -> v.items # <<>>
      [] v.t = "number" -> v.n # 0
      [] v.t = "string" -> v.s # ""
      [] OTHER -> FALSE

\* dict.get(key, default); on a value that is no dict, .get raises.
HasGet(v) == v.t = "object"
DictGet(v, key, default) ==
    IF key \in DOMAIN v.fields THEN v.fields[key] ELSE default

\* float(x) succeeds on a number and raises on null or on non-numeric text.
FloatOk(v) == v.t = "number"
ToFloat(v) == v.n

\* str() as an f-string applies it to an identifier.
FormatStr(v) == IF v.t = "string" THEN v.s ELSE ToString(v.n)

\* --------------------------------------------------------------- rationals

Rat(a, b) == [num |-> a, den |-> b]
RatGT(x, y) == x.num * y.den > y.num * x.den
RatEq(x, y) == x.num * y.den = y.num * x.den
Abs(i) == IF i < 0 THEN -i ELSE i

RECURSIVE SeqSum(_)
SeqSum(s) == IF s = <<>> THEN 0 ELSE Head(s) + SeqSum(Tail(s))
SeqSquares(s) == [i \in 1..Len(s) |-> s[i] * s[i]]
SeqMin(s) == CHOOSE x \in {s[i] : i \in 1..Len(s)} : \A j \in 1..Len(s) : x <= s[j]
SeqMax(s) == CHOOSE x \in {s[i] : i \in 1..Len(s)} : \A j \in 1..Len(s) : x >= s[j]

\* statistics.mean(values)
Mean(values) == Rat(SeqSum(values), Len(values))
\* statistics.stdev(values), squared: sum((x - mean)^2) / (n - 1).
StdevSquared(values) ==
    LET n == Len(values)
        s == SeqSum(values)
    IN Rat(n * SeqSum(SeqSquares(values)) - s * s, n * (n - 1))

\* -------------------------------------------------------- input alphabets

\* The (tenant, signal type) streams the producers feed, and their values.  A
\* message without the two identifiers is filed under "unknown"/"unknown"
\* (app.py:252-253).
MetricStreams == {<<"a_b", "c">>, <<"a", "b_c">>}
MetricValues == {10, 11, 100}

MetricObject(c, t, v) ==
    JObject([customer_id |-> JStr(c), metric_type |-> JStr(t), value |-> v])

\* What the deserialiser (app.py:77) can hand to the loop as message.value:
\* well-formed samples of the streams, a sample without identifiers and one
\* whose value is null ...
SamplePayloads ==
    {MetricObject(p[1], p[2], JNum(v)) : p \in MetricStreams, v \in MetricValues}
    \cup {JObject([value |-> JNum(10)]), MetricObject("a", "b_c", JNull)}

\* ... and, for the consumption path, payloads of other shapes: a JSON array
\* and the empty object.
ShapePayloads ==
    {MetricObject("a_b", "c", JNum(v)) : v \in MetricValues}
    \cup {MetricObject("a_b", "c", JNull), JArray(<<JNum(10)>>), JObject(<<>>)}

\* Samples of two tenants, for what the tenants share.
TenantStreams == {<<"a", "c">>, <<"b", "c">>}
TenantPayloads == {MetricObject(p[1], p[2], JNum(10)) : p \in TenantStreams}

\* ------------------------------------------------------------------ state

VARIABLES
    \* MetricsProcessor (metrics_processor/app.py:48-61)
    metrics_running,          \* self.running
    metrics_processed_count,  \* self.processed_count
    metrics_windows,          \* self.metrics_windows: name -> deque
    customer_metrics,         \* self.customer_metrics: <<customer, type>> -> history
    baseline_metrics,         \* self.baseline_metrics: baseline_key -> baseline
    \* MetricsProcessor.run (app.py:478-500) and its collaborators
    metrics_pc,               \* "consuming" | "exited"
    metrics_position,         \* offset of the next message the iterator returns
    metrics_committed,        \* offset the consumer group has committed
    bronze_metrics,           \* S3 bronze bucket: object key -> body
    \* the alert Lambda's inbox: payloads of the invocations it received
    lambda_invocations,
    \* history variables
    metrics_last,             \* what the last loop iteration did
    metrics_unstored,         \* offsets whose message has no bronze object
    metrics_store_failures,   \* put_object calls S3 refused
    samples_seen              \* <<customer, type>> -> samples handed to update_baseline

metricsVars ==
    <<metrics_running, metrics_processed_count, metrics_windows, customer_metrics,
      baseline_metrics, metrics_pc, metrics_position, metrics_committed,
      bronze_metrics, metrics_last, metrics_unstored, metrics_store_failures,
      samples_seen>>

\* ------------------------------------------------- anomaly detector (pure)

\* app.py:151 and app.py:213: f"{customer_id}_{metric_type}"
BaselineKey(customer_id, metric_type) == customer_id \o "_" \o metric_type

\* app.py:152 self.baseline_metrics.get(baseline_key, {}); {} is falsy.
HasBaseline(baselines, key) == key \in DOMAIN baselines

Z_CRITICAL == Rat(3, 1)
Z_HIGH == Rat(2, 1)
Z_MEDIUM == Rat(3, 2)
RatSquare(x) == Rat(x.num * x.num, x.den * x.den)

\* app.py:165-168: |value - avg| / stddev when stddev > 0, else 0 (as z^2).
ZScoreSquared(value, avg, stddev_sq) ==
    IF stddev_sq.num > 0
    THEN LET d == value * avg.den - avg.num
         IN Rat(d * d * stddev_sq.den, avg.den * avg.den * stddev_sq.num)
    ELSE Rat(0, 1)

\* app.py:171-182
SeverityOf(z_sq) ==
    IF RatGT(z_sq, RatSquare(Z_CRITICAL))
    THEN [severity |-> "critical", is_anomaly |-> TRUE]
    ELSE IF RatGT(z_sq, RatSquare(Z_HIGH))
    THEN [severity |-> "high", is_anomaly |-> TRUE]
    ELSE IF RatGT(z_sq, RatSquare(Z_MEDIUM))
    THEN [severity |-> "medium", is_anomaly |-> TRUE]
    ELSE [severity |-> "normal", is_anomaly |-> FALSE]

\* app.py:191
DeviationPercent(value, avg) ==
    IF avg.num > 0
    THEN Rat(Abs(value * avg.den - avg.num) * 100, avg.num)
    ELSE Rat(0, 1)

\* app.py:135-201
detect_anomalies(baselines, current_metric, customer_id, metric_type) ==
    LET raw == DictGet(current_metric, "value", JNum(0))
        baseline_key == BaselineKey(customer_id, metric_type)
    IN IF ~FloatOk(raw)
       THEN [is_anomaly |-> FALSE, severity |-> "unknown", error |-> "float"]
       ELSE IF ~HasBaseline(baselines, baseline_key)
       THEN [is_anomaly |-> FALSE, severity |-> "normal",
             baseline_available |-> FALSE]
       ELSE LET current_value == ToFloat(raw)
                baseline == baselines[baseline_key]
                z_sq == ZScoreSquared(current_value, baseline.avg, baseline.stddev_sq)
                grade == SeverityOf(z_sq)
            IN [is_anomaly |-> grade.is_anomaly,
                severity |-> grade.severity,
                z_score_sq |-> z_sq,
                baseline_avg |-> baseline.avg,
                baseline_stddev_sq |-> baseline.stddev_sq,
                current_value |-> current_value,
                deviation_percent |-> DeviationPercent(current_value, baseline.avg),
                baseline_available |-> TRUE]

\* ---------------------------------------------------------- baseline store

\* defaultdict(lambda: defaultdict(list)) read at [customer_id][metric_type]
History(histories, customer_id, metric_type) ==
    IF <<customer_id, metric_type>> \in DOMAIN histories
    THEN histories[<<customer_id, metric_type>>]
    ELSE <<>>

\* A trim that keeps the oldest HISTORY_CAP values instead of the newest.
TrimHistory_KeepOldest(h) ==
    IF Len(h) > HISTORY_CAP THEN SubSeq(h, 1, HISTORY_CAP) ELSE h

\* app.py:222-224: keep only the last HISTORY_CAP values.
TrimHistory(h) ==
    IF Len(h) > HISTORY_CAP
    THEN SubSeq(h, Len(h) - HISTORY_CAP + 1, Len(h))
    ELSE h

\* app.py:230-237
ComputeBaseline(values) ==
    [avg |-> Mean(values),
     stddev_sq |-> IF Len(values) > 1 THEN StdevSquared(values) ELSE Rat(0, 1),
     min |-> SeqMin(values),
     max |-> SeqMax(values),
     sample_count |-> Len(values)]

\* app.py:227: recalculate once the history holds enough samples.
EnoughSamples(h) == Len(h) >= BASELINE_MIN_SAMPLES

\* app.py:203-240, as the pair (histories, baselines) it leaves behind.  A
\* metric_value float() rejects raises before the append; the handler logs it.
update_baseline(histories, baselines, customer_id, metric_type, metric_value) ==
    IF ~FloatOk(metric_value)
    THEN [histories |-> histories, baselines |-> baselines]
    ELSE LET baseline_key == BaselineKey(customer_id, metric_type)
             h == TrimHistory(Append(History(histories, customer_id, metric_type),
                                     ToFloat(metric_value)))
         IN [histories |-> (<<customer_id, metric_type>> :> h) @@ histories,
             baselines |-> IF EnoughSamples(h)
                           THEN (baseline_key :> ComputeBaseline(h)) @@ baselines
                           ELSE baselines]

\* -------------------------------------------------------- metrics processor

WindowNames == {"1min", "5min", "15min"}
WindowMaxlen ==
    [w \in WindowNames |->
        CASE w = "1min" -> WINDOW_1MIN_MAXLEN
          [] w = "5min" -> WINDOW_5MIN_MAXLEN
          [] OTHER -> WINDOW_15MIN_MAXLEN]

\* A deque that grows without bound.
DequeAppend_Unbounded(d, x, maxlen) == Append(d, x)

\* collections.deque(maxlen=n).append(x): a full deque drops its left end.
DequeAppend(d, x, maxlen) ==
    IF Len(d) >= maxlen THEN Append(Tail(d), x) ELSE Append(d, x)

\* The two calls in the other order: the sample is tested against a baseline
\* that already includes it.
DetectThenUpdate_UpdateFirst(histories, baselines, metric_data, customer_id, metric_type, metric_value) ==
    LET updated ==
            update_baseline(histories, baselines, customer_id, metric_type,
                            metric_value)
        anomaly_analysis ==
            detect_anomalies(updated.baselines, metric_data, customer_id, metric_type)
    IN [anomaly_analysis |-> anomaly_analysis,
        histories |-> updated.histories,
        baselines |-> updated.baselines]

\* app.py:266-270: detect against the baseline as it stands, then update it.
DetectThenUpdate(histories, baselines, metric_data, customer_id, metric_type, metric_value) ==
    LET anomaly_analysis ==
            detect_anomalies(baselines, metric_data, customer_id, metric_type)
        updated ==
            update_baseline(histories, baselines, customer_id, metric_type,
                            metric_value)
    IN [anomaly_analysis |-> anomaly_analysis,
        histories |-> updated.histories,
        baselines |-> updated.baselines]

\* app.py:273-291 (wall-clock fields left out)
EnrichedMetric(metric_data, anomaly_analysis, customer_id, metric_type, count) ==
    [original_metric |-> metric_data,
     anomaly_analysis |-> anomaly_analysis,
     processing_metadata |->
        [processor |-> "metrics-processor",
         customer_id |-> customer_id,
         metric_type |-> metric_type,
         metric_id |-> count],
     data_lake_metadata |-> [layer |-> "bronze"]]

\* app.py:318: the object key, by its variable parts.
BronzeMetricKey(enriched_metric) ==
    <<enriched_metric.processing_metadata.customer_id,
      enriched_metric.processing_metadata.metric_id>>

\* app.py:304-337: put_object, or a logged error when S3 refuses.
store_in_s3_bronze(bucket, enriched_metric, s3_ok) ==
    IF s3_ok
    THEN (BronzeMetricKey(enriched_metric) :> enriched_metric) @@ bucket
    ELSE bucket

NoIteration ==
    [offset |-> -1, payload |-> JNull, called |-> FALSE, completed |-> FALSE,
     anomaly_analysis |-> JNull, stored |-> FALSE]

\* app.py:242-302, called on message.value at offset `offset`.
process_metric(metric_data, s3_ok, offset) ==
    IF ~HasGet(metric_data)
    THEN \* app.py:252 raises AttributeError; app.py:301-302 logs it.
         /\ metrics_last' = [offset |-> offset, payload |-> metric_data,
                             called |-> TRUE, completed |-> FALSE,
                             anomaly_analysis |-> JNull, stored |-> FALSE]
         /\ metrics_unstored' = metrics_unstored \cup {offset}
         /\ UNCHANGED <<metrics_processed_count, metrics_windows, customer_metrics,
                        baseline_metrics, bronze_metrics, metrics_store_failures,
                        samples_seen>>
    ELSE LET customer_id == FormatStr(DictGet(metric_data, "customer_id", JStr("unknown")))
             metric_type == FormatStr(DictGet(metric_data, "metric_type", JStr("unknown")))
             metric_value == DictGet(metric_data, "value", JNum(0))
             step == DetectThenUpdate(customer_metrics, baseline_metrics, metric_data,
                                      customer_id, metric_type, metric_value)
             enriched_metric ==
                 EnrichedMetric(metric_data, step.anomaly_analysis, customer_id,
                                metric_type, metrics_processed_count)
             pair == <<customer_id, metric_type>>
         IN /\ metrics_windows' =
                  [w \in WindowNames |->
                      DequeAppend(metrics_windows[w], metric_data, WindowMaxlen[w])]
            /\ customer_metrics' = step.histories
            /\ baseline_metrics' = step.baselines
            /\ bronze_metrics' = store_in_s3_bronze(bronze_metrics, enriched_metric, s3_ok)
            /\ metrics_processed_count' = metrics_processed_count + 1
            /\ metrics_last' = [offset |-> offset, payload |-> metric_data,
                                called |-> TRUE, completed |-> TRUE,
                                anomaly_analysis |-> step.anomaly_analysis,
                                stored |-> s3_ok]
            /\ metrics_unstored' =
                  IF s3_ok THEN metrics_unstored ELSE metrics_unstored \cup {offset}
            /\ metrics_store_failures' =
                  IF s3_ok THEN metrics_store_failures ELSE metrics_store_failures + 1
            /\ samples_seen' =
                  IF FloatOk(metric_value)
                  THEN (pair :> Append(History(samples_seen, customer_id, metric_type),
                                       ToFloat(metric_value))) @@ samples_seen
                  ELSE samples_seen

\* app.py:483-492: one iteration of `for message in consumer` on a message the
\* deserialiser decoded.
MetricsConsume(value, s3_ok) ==
    /\ metrics_pc = "consuming"
    /\ metrics_position' = metrics_position + 1
    /\ IF ~metrics_running
       THEN \* app.py:484-485 break, then app.py:498-500
            /\ metrics_pc' = "exited"
            /\ metrics_last' = [NoIteration EXCEPT !.offset = metrics_position,
                                                   !.payload = value]
            /\ metrics_unstored' = metrics_unstored \cup {metrics_position}
            /\ UNCHANGED <<metrics_running, metrics_processed_count, metrics_windows,
                           customer_metrics, baseline_metrics, bronze_metrics,
                           metrics_store_failures, samples_seen>>
       ELSE /\ UNCHANGED <<metrics_pc, metrics_running>>
            /\ IF Truthy(value)
               THEN process_metric(value, s3_ok, metrics_position)
               ELSE \* app.py:488: a falsy value is passed over
                    /\ metrics_last' = [NoIteration EXCEPT !.offset = metrics_position,
                                                           !.payload = value]
                    /\ metrics_unstored' = metrics_unstored \cup {metrics_position}
                    /\ UNCHANGED <<metrics_processed_count, metrics_windows,
                                   customer_metrics, baseline_metrics, bronze_metrics,
                                   metrics_store_failures, samples_seen>>
    /\ UNCHANGED <<metrics_committed, lambda_invocations>>

\* app.py:77 json.loads raises on bytes that are no JSON; the iterator passes
\* the exception to app.py:496-500, which ends the loop.
MetricsDeserializeError ==
    /\ metrics_pc = "consuming"
    /\ metrics_pc' = "exited"
    /\ metrics_running' = FALSE
    /\ UNCHANGED <<metrics_processed_count, metrics_windows, customer_metrics,
                   baseline_metrics, metrics_position, metrics_committed,
                   bronze_metrics, lambda_invocations, metrics_last,
                   metrics_unstored, metrics_store_failures, samples_seen>>

\* app.py:75-76 enable_auto_commit=True, auto_commit_interval_ms=1000: between
\* two iterations the consumer commits the position it has reached.
MetricsAutoCommit ==
    /\ metrics_pc = "consuming"
    /\ metrics_committed < metrics_position
    /\ metrics_committed' = metrics_position
    /\ UNCHANGED <<metrics_running, metrics_processed_count, metrics_windows,
                   customer_metrics, baseline_metrics, metrics_pc, metrics_position,
                   bronze_metrics, lambda_invocations, metrics_last,
                   metrics_unstored, metrics_store_failures, samples_seen>>

\* app.py:37-61 and the start of run() (app.py:461-480)
MetricsInit ==
    /\ metrics_running = TRUE
    /\ metrics_processed_count = 0
    /\ metrics_windows = [w \in WindowNames |-> <<>>]
    /\ customer_metrics = <<>>
    /\ baseline_metrics = <<>>
    /\ metrics_pc = "consuming"
    /\ metrics_position = 0
    /\ metrics_committed = 0
    /\ bronze_metrics = <<>>
    /\ metrics_last = NoIteration
    /\ metrics_unstored = {}
    /\ metrics_store_failures = 0
    /\ samples_seen = <<>>

\* --------------------------------------------------------------- aggregator

\* app.py:116 `len(values) >= 10`: values needed before percentiles are added.
PERCENTILE_MIN_SAMPLES == 10
\* app.py:349 `len(window_data) < 10`: a window shorter than this is passed over.
AGGREGATION_WINDOW_MIN == 10

\* sorted(values)
RECURSIVE InsertSorted(_, _)
InsertSorted(sorted_values, x) ==
    IF sorted_values = <<>> THEN <<x>>
    ELSE IF x <= Head(sorted_values) THEN <<x>> \o sorted_values
    ELSE <<Head(sorted_values)>> \o InsertSorted(Tail(sorted_values), x)
RECURSIVE Sorted(_)
Sorted(values) ==
    IF values = <<>> THEN <<>>
    ELSE InsertSorted(Sorted(Tail(values)), Head(values))

\* statistics.median(values): the middle value, or the mean of the two
\* middle values of an even number of them.
Median(values) ==
    LET sorted_values == Sorted(values)
        n == Len(values)
    IN IF n % 2 = 1
       THEN Rat(sorted_values[(n + 1) \div 2], 1)
       ELSE Rat(sorted_values[n \div 2] + sorted_values[n \div 2 + 1], 2)

\* A percentile indexed from the wrong end of the sorted values.
Percentile_FromEnd(sorted_values, percent) ==
    sorted_values[Len(sorted_values) - (Len(sorted_values) * percent) \div 100]

\* app.py:120-122 sorted_values[int(len(sorted_values) * q)] for q = percent/100
\* (Python indexes from 0).
Percentile(sorted_values, percent) ==
    sorted_values[(Len(sorted_values) * percent) \div 100 + 1]

\* app.py:101 `if m.get('value') is not None`
HasValue(m) == DictGet(m, "value", JNull).t # "null"

\* The empty dict.
EmptyDict == <<>>

\* A percentile gate that lets every batch through.
EnoughForPercentiles_Always(values) == Len(values) >= 1

\* app.py:116
EnoughForPercentiles(values) == Len(values) >= PERCENTILE_MIN_SAMPLES

\* app.py:87-133.  A value float() rejects, or a sample that is no dict,
\* raises inside the try, and the except branch returns {}.
calculate_aggregations(metrics_data) ==
    IF metrics_data = <<>> THEN EmptyDict
    ELSE IF \E i \in 1..Len(metrics_data) :
               \/ ~HasGet(metrics_data[i])
               \/ HasValue(metrics_data[i])
                    /\ ~FloatOk(DictGet(metrics_data[i], "value", JNum(0)))
    THEN EmptyDict
    ELSE LET with_value == SelectSeq(metrics_data, HasValue)
             values == [i \in 1..Len(with_value) |->
                           ToFloat(DictGet(with_value[i], "value", JNum(0)))]
         IN IF values = <<>> THEN EmptyDict
            ELSE [count |-> Len(values),
                  sum |-> SeqSum(values),
                  avg |-> Mean(values),
                  min |-> SeqMin(values),
                  max |-> SeqMax(values),
                  median |-> Median(values)]
                 @@ (IF EnoughForPercentiles(values)
                     THEN LET sorted_values == Sorted(values)
                          IN [p50 |-> Median(sorted_values),
                              p90 |-> Percentile(sorted_values, 90),
                              p95 |-> Percentile(sorted_values, 95),
                              p99 |-> Percentile(sorted_values, 99)]
                     ELSE EmptyDict)
                 @@ (IF Len(values) > 1
                     THEN [stddev_sq |-> StdevSquared(values)]
                     ELSE EmptyDict)

\* app.py:355-358: the (customer_id, metric_type) groups of a window, and the
\* samples of one group in the window's order.
WindowGroups(window_data) ==
    {<<FormatStr(DictGet(window_data[i], "customer_id", JStr("unknown"))),
       FormatStr(DictGet(window_data[i], "metric_type", JStr("unknown")))>> :
        i \in 1..Len(window_data)}
GroupMetrics(window_data, group) ==
    SelectSeq(window_data,
              LAMBDA metric :
                 /\ FormatStr(DictGet(metric, "customer_id", JStr("unknown"))) = group[1]
                 /\ FormatStr(DictGet(metric, "metric_type", JStr("unknown"))) = group[2])

\* app.py:367-384 (wall-clock fields left out)
AggregatedMetric(window_name, group, metrics, aggregations) ==
    [aggregation_metadata |->
        [window |-> window_name, customer_id |-> group[1], metric_type |-> group[2],
         sample_count |-> Len(metrics)],
     aggregations |-> aggregations,
     data_lake_metadata |-> [layer |-> "silver"]]

\* app.py:347-387: one pass of generate_aggregations over the windows, as the
\* set of aggregated metrics it hands to store_aggregation_s3_silver.
generate_aggregations(windows) ==
    {AggregatedMetric(w, group, GroupMetrics(windows[w], group),
                      calculate_aggregations(GroupMetrics(windows[w], group))) :
        <<w, group>> \in
            {wg \in UNION {{<<w, group>> : group \in WindowGroups(windows[w])} :
                              w \in DOMAIN windows} :
                /\ Len(windows[wg[1]]) >= AGGREGATION_WINDOW_MIN
                /\ calculate_aggregations(GroupMetrics(windows[wg[1]], wg[2]))
                      # EmptyDict}}

\* ------------------------------------------------------- threat classifier

\* str.lower(), letter by letter.
LowerChar(ch) ==
    CASE ch = "A" -> "a" [] ch = "B" -> "b" [] ch = "C" -> "c" [] ch = "D" -> "d"
      [] ch = "E" -> "e" [] ch = "F" -> "f" [] ch = "G" -> "g" [] ch = "H" -> "h"
      [] ch = "I" -> "i" [] ch = "J" -> "j" [] ch = "K" -> "k" [] ch = "L" -> "l"
      [] ch = "M" -> "m" [] ch = "N" -> "n" [] ch = "O" -> "o" [] ch = "P" -> "p"
      [] ch = "Q" -> "q" [] ch = "R" -> "r" [] ch = "S" -> "s" [] ch = "T" -> "t"
      [] ch = "U" -> "u" [] ch = "V" -> "v" [] ch = "W" -> "w" [] ch = "X" -> "x"
      [] ch = "Y" -> "y" [] ch = "Z" -> "z" [] OTHER -> ch

RECURSIVE LowerRange(_, _, _)
LowerRange(text, first, last) ==
    IF first > last THEN ""
    ELSE IF first = last THEN LowerChar(SubSeq(text, first, first))
    ELSE LET middle == (first + last) \div 2
         IN LowerRange(text, first, middle) \o LowerRange(text, middle + 1, last)
Lower(text) == LowerRange(text, 1, Len(text))

\* `pattern in event_text`
Contains(text, pattern) ==
    \E i \in 1..(Len(text) - Len(pattern) + 1) :
        SubSeq(text, i, i + Len(pattern) - 1) = pattern

\* The order json.dumps writes the keys of the events modelled here (a dict
\* keeps its insertion order).
KeyOrder == <<"description", "severity", "customer_id", "metric_type", "value">>

RECURSIVE JoinWith(_, _)
JoinWith(parts, sep) ==
    IF parts = <<>> THEN ""
    ELSE IF Len(parts) = 1 THEN parts[1]
    ELSE parts[1] \o sep \o JoinWith(Tail(parts), sep)

\* json.dumps(value) with the default separators.
RECURSIVE JsonDumps(_)
JsonDumps(v) ==
    CASE v.t = "object" ->
            LET keys == SelectSeq(KeyOrder, LAMBDA k : k \in DOMAIN v.fields)
            IN "{" \o JoinWith([i \in 1..Len(keys) |->
                                  "\"" \o keys[i] \o "\": " \o JsonDumps(v.fields[keys[i]])],
                               ", ") \o "}"
      [] v.t = "array" ->
            "[" \o JoinWith([i \in 1..Len(v.items) |-> JsonDumps(v.items[i])], ", ") \o "]"
      [] v.t = "number" -> ToString(v.n)
      [] v.t = "string" -> "\"" \o v.s \o "\""
      [] OTHER -> "null"

\* security_processor/app.py:54-60, in the dict's order.
ThreatTypes ==
    <<"failed_login", "malware", "network_anomaly", "privilege_escalation",
      "data_exfiltration">>
threat_patterns ==
    [failed_login |-> <<"authentication failed", "login failed", "invalid credentials">>,
     malware |-> <<"virus detected", "trojan", "malware", "suspicious file">>,
     network_anomaly |-> <<"port scan", "ddos", "unusual traffic", "network intrusion">>,
     privilege_escalation |->
        <<"admin access", "privilege escalation", "unauthorized access">>,
     data_exfiltration |->
        <<"large download", "data export", "file transfer", "sensitive data">>]

\* app.py:101-106: each threat type is appended once, at its first pattern.
ThreatMatches(threat_type, event_text) ==
    \E i \in 1..Len(threat_patterns[threat_type]) :
        Contains(event_text, threat_patterns[threat_type][i])
DetectedThreats(event_text) ==
    SelectSeq(ThreatTypes, LAMBDA threat_type : ThreatMatches(threat_type, event_text))

\* The severity rule with its first comparison off by one.
ThreatSeverity_OffByOne(detected_threats) ==
    IF Len(detected_threats) > 2 THEN "high"
    ELSE IF detected_threats # <<>> THEN "medium"
    ELSE "low"

\* app.py:109-113
ThreatSeverity(detected_threats) ==
    IF Len(detected_threats) > 1 THEN "high"
    ELSE IF detected_threats # <<>> THEN "medium"
    ELSE "low"

\* The risk score without its cap.
RiskScore_Uncapped(detected_threats) == Len(detected_threats) * 25

\* app.py:116-118
RiskScore(detected_threats) ==
    LET risk_score == Len(detected_threats) * 25
    IN IF risk_score > 100 THEN 100 ELSE risk_score

\* json.dumps raises on a value JSON cannot carry; a deserialised message
\* value is always one it can.
JsonSerializable(v) == v.t \in {"object", "array", "number", "string", "null"}

\* app.py:87-135
classify_threat(event_data) ==
    IF JsonSerializable(event_data)
    THEN LET event_text == Lower(JsonDumps(event_data))
             detected_threats == DetectedThreats(event_text)
         IN [threats_detected |-> detected_threats,
             severity |-> ThreatSeverity(detected_threats),
             risk_score |-> RiskScore(detected_threats)]
    ELSE [threats_detected |-> <<>>, severity |-> "unknown", risk_score |-> 0,
          error |-> "dumps"]

\* app.py:120-125 and 129-135: the classification together with the
\* classification_timestamp it is returned with, `now` being what
\* datetime.now(timezone.utc) reads during the call.
classify_threat_at(event_data, now) ==
    classify_threat(event_data) @@ [classification_timestamp |-> now]

\* ------------------------------------------------- security event processor

VARIABLES
    \* SecurityEventProcessor (security_processor/app.py:49-51)
    security_running,          \* self.running
    security_processed_count,  \* self.processed_count
    alert_count,               \* self.alert_count
    \* SecurityEventProcessor.run (app.py:326-348) and its collaborators
    security_pc,               \* "consuming" | "exited"
    security_position,         \* offset of the next message the iterator returns
    security_committed,        \* offset the consumer group has committed
    bronze_security,           \* S3 bucket: object key -> body
    \* history variables
    security_last,             \* what the last loop iteration did
    security_unstored,         \* offsets whose message has no bronze object
    security_store_failures,   \* put_object calls S3 refused
    alert_failures             \* Lambda invocations that raised

securityVars ==
    <<security_running, security_processed_count, alert_count, security_pc,
      security_position, security_committed, bronze_security, security_last,
      security_unstored, security_store_failures, alert_failures>>

SecurityEvent(description, severity) ==
    JObject([description |-> JStr(description), severity |-> JStr(severity),
             customer_id |-> JStr("a")])

\* What the deserialiser (app.py:77) can hand to the loop as message.value.
SecurityPayloads ==
    {SecurityEvent("Authentication failed twice", "high"),
     SecurityEvent("Malware detected after port scan", "low"),
     SecurityEvent("disk quota reached", "critical"),
     JArray(<<JStr("port scan")>>),
     JObject(<<>>)}

\* An enrichment whose event_id is the millisecond alone.
enrich_event_WithoutCount(event_data, classification, count) ==
    IF HasGet(event_data)
    THEN [original_event |-> event_data,
          threat_analysis |-> classification,
          processing_metadata |->
             [processor |-> "security-event-processor",
              customer_id |->
                 FormatStr(DictGet(event_data, "customer_id", JStr("unknown"))),
              event_id |-> 0],
          data_lake_metadata |-> [layer |-> "bronze"]]
    ELSE event_data

\* app.py:137-172: the enriched event, or the event itself when building it
\* raises (event_data.get on a value that is no dict).
enrich_event(event_data, classification, count) ==
    IF HasGet(event_data)
    THEN [original_event |-> event_data,
          threat_analysis |-> classification,
          processing_metadata |->
             [processor |-> "security-event-processor",
              customer_id |->
                 FormatStr(DictGet(event_data, "customer_id", JStr("unknown"))),
              event_id |-> count],
          data_lake_metadata |-> [layer |-> "bronze"]]
    ELSE event_data

\* enriched_event['processing_metadata'] is defined on the dict enrich_event
\* builds, and raises TypeError on a list, a string or a number.
HasProcessingMetadata(enriched_event) == "processing_metadata" \in DOMAIN enriched_event

\* app.py:174-208: the bucket after put_object, or as it was when S3 refuses.
store_in_s3(bucket, enriched_event, s3_ok) ==
    IF s3_ok
    THEN (enriched_event.processing_metadata.event_id :> enriched_event) @@ bucket
    ELSE bucket

\* app.py:222
AlertCondition(severity, risk_score) ==
    severity \in {"medium", "high"} \/ risk_score > 50

\* app.py:223-231
AlertPayload(enriched_event) ==
    [alert_type |-> "security_threat",
     severity |-> enriched_event.threat_analysis.severity,
     risk_score |-> enriched_event.threat_analysis.risk_score,
     threats |-> enriched_event.threat_analysis.threats_detected,
     customer_id |-> enriched_event.processing_metadata.customer_id,
     event_id |-> enriched_event.processing_metadata.event_id]

\* An alert counted before the invoke, so that a failed invoke is counted too.
trigger_alert_CountFirst(invocations, count, enriched_event, lambda_ok) ==
    IF AlertCondition(enriched_event.threat_analysis.severity,
                      enriched_event.threat_analysis.risk_score)
    THEN [invocations |-> IF lambda_ok
                          THEN Append(invocations, AlertPayload(enriched_event))
                          ELSE invocations,
          alert_count |-> count + 1]
    ELSE [invocations |-> invocations, alert_count |-> count]

\* app.py:210-244, as [invocations, alert_count] it leaves behind; when the
\* invoke raises, the error is logged and neither changes.
trigger_alert(invocations, count, enriched_event, lambda_ok) ==
    IF /\ AlertCondition(enriched_event.threat_analysis.severity,
                         enriched_event.threat_analysis.risk_score)
       /\ lambda_ok
    THEN [invocations |-> Append(invocations, AlertPayload(enriched_event)),
          alert_count |-> count + 1]
    ELSE [invocations |-> invocations, alert_count |-> count]

\* app.py:270
ShouldTriggerAlert(classification) == classification.severity \in {"medium", "high"}

NoEventIteration ==
    [offset |-> -1, payload |-> JNull, called |-> FALSE, completed |-> FALSE,
     classification |-> JNull, stored |-> FALSE, alert_attempted |-> FALSE,
     alerted |-> FALSE]

\* app.py:246-279, called on message.value at offset `offset`.
process_classified(event_data, classification, s3_ok, lambda_ok, offset) ==
    LET enriched_event == enrich_event(event_data, classification,
                                       security_processed_count)
    IN IF ~HasProcessingMetadata(enriched_event)
       THEN \* app.py:264 raises TypeError; app.py:278-279 logs it.
            /\ security_last' = [NoEventIteration EXCEPT
                                    !.offset = offset, !.payload = event_data,
                                    !.called = TRUE,
                                    !.classification = classification]
            /\ security_unstored' = security_unstored \cup {offset}
            /\ UNCHANGED <<security_processed_count, alert_count, bronze_security,
                           lambda_invocations, security_store_failures,
                           alert_failures>>
       ELSE LET alert == IF ShouldTriggerAlert(classification)
                         THEN trigger_alert(lambda_invocations, alert_count,
                                            enriched_event, lambda_ok)
                         ELSE [invocations |-> lambda_invocations,
                               alert_count |-> alert_count]
            IN /\ bronze_security' = store_in_s3(bronze_security, enriched_event, s3_ok)
               /\ lambda_invocations' = alert.invocations
               /\ alert_count' = alert.alert_count
               /\ security_processed_count' = security_processed_count + 1
               /\ security_last' =
                     [offset |-> offset, payload |-> event_data, called |-> TRUE,
                      completed |-> TRUE, classification |-> classification,
                      stored |-> s3_ok,
                      alert_attempted |-> ShouldTriggerAlert(classification),
                      alerted |-> alert.alert_count # alert_count]
               /\ security_unstored' =
                     IF s3_ok THEN security_unstored
                     ELSE security_unstored \cup {offset}
               /\ security_store_failures' =
                     IF s3_ok THEN security_store_failures
                     ELSE security_store_failures + 1
               /\ alert_failures' =
                     IF ShouldTriggerAlert(classification) /\ ~lambda_ok
                     THEN alert_failures + 1
                     ELSE alert_failures

process_event(event_data, s3_ok, lambda_ok, offset) ==
    process_classified(event_data, classify_threat(event_data), s3_ok, lambda_ok, offset)

\* An iteration that goes on to process_event whatever self.running says.
SecurityConsume_IgnoresRunning(value, s3_ok, lambda_ok) ==
    /\ security_pc = "consuming"
    /\ security_position' = security_position + 1
    /\ UNCHANGED <<security_pc, security_running>>
    /\ IF Truthy(value)
       THEN process_event(value, s3_ok, lambda_ok, security_position)
       ELSE /\ security_last' = [NoEventIteration EXCEPT
                                    !.offset = security_position,
                                    !.payload = value]
            /\ security_unstored' = security_unstored \cup {security_position}
            /\ UNCHANGED <<security_processed_count, alert_count,
                           bronze_security, lambda_invocations,
                           security_store_failures, alert_failures>>
    /\ UNCHANGED security_committed

\* app.py:331-340: one iteration of `for message in consumer` on a message the
\* deserialiser decoded.
SecurityConsume(value, s3_ok, lambda_ok) ==
    /\ security_pc = "consuming"
    /\ security_position' = security_position + 1
    /\ IF ~security_running
       THEN \* app.py:332-333 break, then app.py:346-348
            /\ security_pc' = "exited"
            /\ security_last' = [NoEventIteration EXCEPT
                                    !.offset = security_position, !.payload = value]
            /\ security_unstored' = security_unstored \cup {security_position}
            /\ UNCHANGED <<security_running, security_processed_count, alert_count,
                           bronze_security, lambda_invocations,
                           security_store_failures, alert_failures>>
       ELSE /\ UNCHANGED <<security_pc, security_running>>
            /\ IF Truthy(value)
               THEN process_event(value, s3_ok, lambda_ok, security_position)
               ELSE \* app.py:336: a falsy value is passed over
                    /\ security_last' = [NoEventIteration EXCEPT
                                            !.offset = security_position,
                                            !.payload = value]
                    /\ security_unstored' = security_unstored \cup {security_position}
                    /\ UNCHANGED <<security_processed_count, alert_count,
                                   bronze_security, lambda_invocations,
                                   security_store_failures, alert_failures>>
    /\ UNCHANGED security_committed

\* app.py:77 json.loads raises on bytes that are no JSON; the iterator passes
\* the exception to app.py:344-348, which ends the loop.
SecurityDeserializeError ==
    /\ security_pc = "consuming"
    /\ security_pc' = "exited"
    /\ security_running' = FALSE
    /\ UNCHANGED <<security_processed_count, alert_count, security_position,
                   security_committed, bronze_security, lambda_invocations,
                   security_last, security_unstored, security_store_failures,
                   alert_failures>>

\* app.py:75-76 enable_auto_commit=True, auto_commit_interval_ms=1000: between
\* two iterations the consumer commits the position it has reached.
SecurityAutoCommit ==
    /\ security_pc = "consuming"
    /\ security_committed < security_position
    /\ security_committed' = security_position
    /\ UNCHANGED <<security_running, security_processed_count, alert_count,
                   security_pc, security_position, bronze_security,
                   lambda_invocations, security_last, security_unstored,
                   security_store_failures, alert_failures>>

\* app.py:37-65 and the start of run() (app.py:310-328)
SecurityInit ==
    /\ security_running = TRUE
    /\ security_processed_count = 0
    /\ alert_count = 0
    /\ security_pc = "consuming"
    /\ security_position = 0
    /\ security_committed = 0
    /\ bronze_security = <<>>
    /\ security_last = NoEventIteration
    /\ security_unstored = {}
    /\ security_store_failures = 0
    /\ alert_failures = 0

\* ---------------------------------------------------------- run() and main()

VARIABLES
    security_exit,   \* how main() of the security processor ended, if it has
    metrics_exit     \* how main() of the metrics processor ended, if it has

exitVars == <<security_exit, metrics_exit>>

NotExited == [cause |-> "none", status |-> -1]

\* app.py:350-353: main() returns when run() returns, and the interpreter
\* exits with status 0; `cause` keeps the line of run() that ended the loop.
MainReturns(cause) == [cause |-> cause, status |-> 0]

\* app.py:327-328 and 67-85: setup_consumer returns the consumer, or logs and
\* raises when no broker is reachable; run() catches that at app.py:344-345,
\* runs its finally (app.py:346-348) and returns.
SecuritySetupConsumer(reachable) ==
    /\ security_pc = "starting"
    /\ IF reachable
       THEN /\ security_pc' = "consuming"
            /\ UNCHANGED <<security_running, security_exit>>
       ELSE /\ security_pc' = "exited"
            /\ security_running' = FALSE
            /\ security_exit' = MainReturns("setup")
    /\ UNCHANGED <<security_processed_count, alert_count, security_position,
                   security_committed, bronze_security, lambda_invocations,
                   security_last, security_unstored, security_store_failures,
                   alert_failures, metrics_exit>>

\* app.py:305-308, installed for SIGINT and SIGTERM at app.py:317-318.
SecuritySignalHandler ==
    /\ security_pc \in {"starting", "consuming"}
    /\ security_running
    /\ security_running' = FALSE
    /\ UNCHANGED <<security_processed_count, alert_count, security_pc,
                   security_position, security_committed, bronze_security,
                   lambda_invocations, security_last, security_unstored,
                   security_store_failures, alert_failures, exitVars>>

\* app.py:78 consumer_timeout_ms=10000: after ten seconds without a message
\* the iterator stops, the for loop ends and run() goes through its finally.
SecurityConsumerTimeout ==
    /\ security_pc = "consuming"
    /\ security_pc' = "exited"
    /\ security_running' = FALSE
    /\ security_exit' = MainReturns("idle")
    /\ UNCHANGED <<security_processed_count, alert_count, security_position,
                   security_committed, bronze_security, lambda_invocations,
                   security_last, security_unstored, security_store_failures,
                   alert_failures, metrics_exit>>

\* app.py:331-348 and 350-353: the iteration, and the end of main() when the
\* iteration leaves the loop.
SecurityRunConsume(value, s3_ok, lambda_ok) ==
    /\ SecurityConsume(value, s3_ok, lambda_ok)
    /\ security_exit' =
          IF security_pc' = "exited" THEN MainReturns("signal") ELSE security_exit
    /\ UNCHANGED metrics_exit

\* app.py:344-348 and 350-353 after the iterator raised.
SecurityRunDeserializeError ==
    /\ SecurityDeserializeError
    /\ security_exit' = MainReturns("error")
    /\ UNCHANGED metrics_exit

\* app.py:37-65 and run() up to app.py:325: handlers installed, no consumer yet.
SecurityRunInit ==
    /\ security_running = TRUE
    /\ security_processed_count = 0
    /\ alert_count = 0
    /\ security_pc = "starting"
    /\ security_position = 0
    /\ security_committed = 0
    /\ bronze_security = <<>>
    /\ security_last = NoEventIteration
    /\ security_unstored = {}
    /\ security_store_failures = 0
    /\ alert_failures = 0

\* ------------------------------------- run() of the metrics processor

VARIABLES
    aggregation_count,    \* self.aggregation_count
    silver_metrics,       \* S3 silver bucket: the objects put, in order
    aggregation_thread    \* where generate_aggregations stands, and its locals

aggregationVars == <<aggregation_count, silver_metrics, aggregation_thread>>

\* app.py:347 `self.metrics_windows.items()`: the windows in dict order.
WindowOrder == <<"1min", "5min", "15min">>

\* app.py:343: the thread at the top of `while self.running`, no pass begun.
\*   pc         "loop" | "windows" | "iterating" | "storing" | "sleeping" | "returned"
\*   todo       the windows the pass has still to visit, the current one first
\*   iter_state the deque's mutation count when `for metric in window_data` began
\*   pending    the aggregated metrics of the current window not yet stored
\*   aborted    an exception has cut a pass short (app.py:392-394)
AggregationIdle ==
    [pc |-> "loop", todo |-> <<>>, iter_state |-> 0, pending |-> <<>>,
     aborted |-> FALSE]

\* The number of appends a window has seen: process_metric appends to every
\* window once in each call that goes on to count itself (app.py:263-264, 298).
DequeState == metrics_processed_count

\* app.py:353-358: the groups of a window in the order the dict first meets them.
RECURSIVE GroupsInOrder(_)
GroupsInOrder(window_data) ==
    IF window_data = <<>> THEN <<>>
    ELSE LET earlier == GroupsInOrder(SubSeq(window_data, 1, Len(window_data) - 1))
             group == <<FormatStr(DictGet(window_data[Len(window_data)],
                                          "customer_id", JStr("unknown"))),
                        FormatStr(DictGet(window_data[Len(window_data)],
                                          "metric_type", JStr("unknown")))>>
         IN IF \E i \in 1..Len(earlier) : earlier[i] = group
            THEN earlier
            ELSE Append(earlier, group)

\* app.py:361-384: the aggregated metrics of one window, one per group whose
\* aggregations are not empty.
WindowAggregates(window_name, window_data) ==
    LET groups == GroupsInOrder(window_data)
        all == [i \in 1..Len(groups) |->
                   AggregatedMetric(window_name, groups[i],
                                    GroupMetrics(window_data, groups[i]),
                                    calculate_aggregations(
                                        GroupMetrics(window_data, groups[i])))]
    IN SelectSeq(all, LAMBDA aggregated_metric :
                          aggregated_metric.aggregations # EmptyDict)

\* The daemon thread runs only as long as the process does (app.py:470).
AggregationThreadAlive == metrics_exit = NotExited

\* app.py:343-347: `while self.running`, then the start of a pass.
AggLoopTest ==
    /\ AggregationThreadAlive
    /\ aggregation_thread.pc = "loop"
    /\ aggregation_thread' =
          IF metrics_running
          THEN [aggregation_thread EXCEPT !.pc = "windows", !.todo = WindowOrder]
          ELSE [aggregation_thread EXCEPT !.pc = "returned"]
    /\ UNCHANGED <<aggregation_count, silver_metrics>>

\* app.py:347-353: the next window of the pass; a window of fewer than 10
\* samples is passed over, and after the last window the thread sleeps.
AggNextWindow ==
    /\ AggregationThreadAlive
    /\ aggregation_thread.pc = "windows"
    /\ aggregation_thread' =
          IF aggregation_thread.todo = <<>>
          THEN [aggregation_thread EXCEPT !.pc = "sleeping"]
          ELSE IF Len(metrics_windows[Head(aggregation_thread.todo)])
                     < AGGREGATION_WINDOW_MIN
          THEN [aggregation_thread EXCEPT !.todo = Tail(@)]
          ELSE [aggregation_thread EXCEPT !.pc = "iterating",
                                          !.iter_state = DequeState]
    /\ UNCHANGED <<aggregation_count, silver_metrics>>

\* app.py:355-364: `for metric in window_data` runs to its end and the groups
\* are aggregated; if the deque was appended to since the loop began, the
\* deque's iterator raises RuntimeError, which app.py:392-394 logs before the
\* thread sleeps, the rest of the pass dropped.
AggGroupWindow ==
    /\ AggregationThreadAlive
    /\ aggregation_thread.pc = "iterating"
    /\ aggregation_thread' =
          IF DequeState # aggregation_thread.iter_state
          THEN [aggregation_thread EXCEPT !.pc = "sleeping", !.todo = <<>>,
                                          !.aborted = TRUE]
          ELSE LET w == Head(aggregation_thread.todo)
                   pending == WindowAggregates(w, metrics_windows[w])
               IN IF pending = <<>>
                  THEN [aggregation_thread EXCEPT !.pc = "windows", !.todo = Tail(@)]
                  ELSE [aggregation_thread EXCEPT !.pc = "storing",
                                                  !.pending = pending]
    /\ UNCHANGED <<aggregation_count, silver_metrics>>

\* app.py:386-387 and 396-429: one aggregated metric is put into the silver
\* bucket, or the refusal of S3 is logged; it is counted either way.
AggStore(s3_ok) ==
    /\ AggregationThreadAlive
    /\ aggregation_thread.pc = "storing"
    /\ silver_metrics' =
          IF s3_ok THEN Append(silver_metrics, Head(aggregation_thread.pending))
          ELSE silver_metrics
    /\ aggregation_count' = aggregation_count + 1
    /\ aggregation_thread' =
          IF Tail(aggregation_thread.pending) = <<>>
          THEN [aggregation_thread EXCEPT !.pc = "windows", !.todo = Tail(@),
                                          !.pending = <<>>]
          ELSE [aggregation_thread EXCEPT !.pending = Tail(@)]

\* app.py:390 time.sleep(60) returns.
AggWake ==
    /\ AggregationThreadAlive
    /\ aggregation_thread.pc = "sleeping"
    /\ aggregation_thread' = [aggregation_thread EXCEPT !.pc = "loop"]
    /\ UNCHANGED <<aggregation_count, silver_metrics>>

\* app.py:480-481 and 67-85, as in the security processor.
MetricsSetupConsumer(reachable) ==
    /\ metrics_pc = "starting"
    /\ IF reachable
       THEN /\ metrics_pc' = "consuming"
            /\ UNCHANGED <<metrics_running, metrics_exit>>
       ELSE /\ metrics_pc' = "exited"
            /\ metrics_running' = FALSE
            /\ metrics_exit' = MainReturns("setup")
    /\ UNCHANGED <<metrics_processed_count, metrics_windows, customer_metrics,
                   baseline_metrics, metrics_position, metrics_committed,
                   bronze_metrics, lambda_invocations, metrics_last,
                   metrics_unstored, metrics_store_failures, samples_seen,
                   security_exit>>

\* app.py:456-459, installed at app.py:466-467.
MetricsSignalHandler ==
    /\ metrics_pc \in {"starting", "consuming"}
    /\ metrics_running
    /\ metrics_running' = FALSE
    /\ UNCHANGED <<metrics_processed_count, metrics_windows, customer_metrics,
                   baseline_metrics, metrics_pc, metrics_position,
                   metrics_committed, bronze_metrics, lambda_invocations,
                   metrics_last, metrics_unstored, metrics_store_failures,
                   samples_seen, exitVars>>

\* app.py:78 consumer_timeout_ms=10000 ends the for loop after ten idle seconds.
MetricsConsumerTimeout ==
    /\ metrics_pc = "consuming"
    /\ metrics_pc' = "exited"
    /\ metrics_running' = FALSE
    /\ metrics_exit' = MainReturns("idle")
    /\ UNCHANGED <<metrics_processed_count, metrics_windows, customer_metrics,
                   baseline_metrics, metrics_position, metrics_committed,
                   bronze_metrics, lambda_invocations, metrics_last,
                   metrics_unstored, metrics_store_failures, samples_seen,
                   security_exit>>

\* app.py:483-500 and 502-505: the iteration, and the end of main() when the
\* iteration leaves the loop.
MetricsRunConsume(value, s3_ok) ==
    /\ MetricsConsume(value, s3_ok)
    /\ metrics_exit' =
          IF metrics_pc' = "exited" THEN MainReturns("signal") ELSE metrics_exit
    /\ UNCHANGED security_exit

\* app.py:496-500 and 502-505 after the iterator raised.
MetricsRunDeserializeError ==
    /\ MetricsDeserializeError
    /\ metrics_exit' = MainReturns("error")
    /\ UNCHANGED security_exit

\* app.py:37-61 and run() up to app.py:477: handlers installed, the
\* aggregation thread started, no consumer yet.
MetricsRunInit ==
    /\ metrics_running = TRUE
    /\ metrics_processed_count = 0
    /\ metrics_windows = [w \in WindowNames |-> <<>>]
    /\ customer_metrics = <<>>
    /\ baseline_metrics = <<>>
    /\ metrics_pc = "starting"
    /\ metrics_position = 0
    /\ metrics_committed = 0
    /\ bronze_metrics = <<>>
    /\ metrics_last = NoIteration
    /\ metrics_unstored = {}
    /\ metrics_store_failures = 0
    /\ samples_seen = <<>>
    /\ aggregation_count = 0
    /\ silver_metrics = <<>>
    /\ aggregation_thread = AggregationIdle

\* --------------------------------------------------------- alert dispatcher

\* lambda_function.py:339-362: the text the call returns; a publish that
\* raises is caught and reported as an error text (message ids left out).
send_sns_notification(message, priority, sns_ok) ==
    IF sns_ok THEN "SNS notification sent" ELSE "SNS error"

\* An email call that reports success whatever send_email did.
send_email_notification_AlwaysSent(message, customer_id, alert_type, ses_ok) ==
    "Email sent"

\* lambda_function.py:364-385
send_email_notification(message, customer_id, alert_type, ses_ok) ==
    IF ses_ok THEN "Email sent" ELSE "Email error"

\* lambda_function.py:431-433
create_incident_ticket(event) == "Incident ticket created (placeholder)"

\* lambda_function.py:413-429: the table after put_item, or as it was when
\* DynamoDB refuses; the caller gets alert_data back either way.
store_alert_record(table, alert_data, dynamo_ok) ==
    IF dynamo_ok THEN (alert_data.alert_id :> alert_data) @@ table ELSE table

\* lambda_function.py:291-313, by the parts the message is made of.
generate_security_alert_message(event) ==
    [severity |-> DictGet(event, "severity", JStr("unknown")),
     customer_id |-> DictGet(event, "customer_id", JStr("unknown")),
     event_id |-> DictGet(event, "event_id", JStr("unknown")),
     risk_score |-> DictGet(event, "risk_score", JNum(0)),
     threats |-> DictGet(event, "threats", JArray(<<>>))]

\* What makes process_security_alert raise before any channel is called:
\* an event without .get, a severity without .upper() (lambda_function.py:301),
\* threats that ', '.join rejects (lambda_function.py:306), or a risk_score
\* that `>` cannot compare with a number (lambda_function.py:99).
DispatchRaises(event) ==
    \/ ~HasGet(event)
    \/ DictGet(event, "severity", JStr("unknown")).t # "string"
    \/ DictGet(event, "threats", JArray(<<>>)).t \notin {"array", "null"}
    \/ /\ DictGet(event, "severity", JStr("low")) # JStr("critical")
       /\ DictGet(event, "risk_score", JNum(0)).t # "number"

\* A routing that looks at the severity only.
SecurityTier_SeverityOnly(severity, risk_score) ==
    IF severity = "critical" THEN "critical"
    ELSE IF severity = "high" THEN "high"
    ELSE "other"

\* lambda_function.py:99, 107, 114: the branch taken.
SecurityTier(severity, risk_score) ==
    IF severity = "critical" \/ risk_score > 80 THEN "critical"
    ELSE IF severity = "high" \/ risk_score > 60 THEN "high"
    ELSE "other"

\* lambda_function.py:99-118: the channel calls of the branch, in the order
\* they are made, each with its outcome and the text it returns.
ChannelCalls(event, tier, sns_ok, ses_ok) ==
    LET alert_message == generate_security_alert_message(event)
        customer_id == FormatStr(DictGet(event, "customer_id", JStr("unknown")))
        sns(priority) ==
            [channel |-> "sns", priority |-> priority, ok |-> sns_ok,
             text |-> send_sns_notification(alert_message, priority, sns_ok)]
        email(priority) ==
            [channel |-> "email", priority |-> priority, ok |-> ses_ok,
             text |-> send_email_notification(alert_message, customer_id, priority,
                                              ses_ok)]
        ticket ==
            [channel |-> "ticket", priority |-> "CRITICAL", ok |-> TRUE,
             text |-> create_incident_ticket(event)]
    IN CASE tier = "critical" -> <<sns("CRITICAL"), email("CRITICAL"), ticket>>
         [] tier = "high" -> <<sns("HIGH"), email("HIGH")>>
         [] OTHER -> <<sns("MEDIUM")>>

\* lambda_function.py:121-138: the record handed to store_alert_record and the
\* response (the timestamp field left out; alert_id keeps the clock reading).
RecordAndRespond(event, table, now, calls, dynamo_ok) ==
    LET actions_taken == [i \in 1..Len(calls) |-> calls[i].text]
        alert_data ==
            [alert_id |-> "sec_" \o ToString(now),
             alert_type |-> "security_threat",
             customer_id |-> DictGet(event, "customer_id", JStr("unknown")),
             severity |-> DictGet(event, "severity", JStr("low")),
             risk_score |-> DictGet(event, "risk_score", JNum(0)),
             threats_detected |-> DictGet(event, "threats", JArray(<<>>)),
             event_id |-> DictGet(event, "event_id", JStr("unknown")),
             actions_taken |-> actions_taken]
    IN [raised |-> FALSE,
        calls |-> calls,
        store_called |-> TRUE,
        table |-> store_alert_record(table, alert_data, dynamo_ok),
        response |-> [alert_id |-> alert_data.alert_id,
                      actions_taken |-> actions_taken,
                      severity |-> alert_data.severity,
                      risk_score |-> alert_data.risk_score]]

\* lambda_function.py:140-142: the exception is logged and raised again.
DispatchRaised(table) ==
    [raised |-> TRUE, calls |-> <<>>, store_called |-> FALSE, table |-> table]

\* A dispatch that gives up when the first channel call fails.
process_security_alert_StopOnChannelError(event, table, now, sns_ok, ses_ok, dynamo_ok) ==
    IF DispatchRaises(event) \/ ~sns_ok
    THEN DispatchRaised(table)
    ELSE RecordAndRespond(
            event, table, now,
            ChannelCalls(event,
                         SecurityTier(DictGet(event, "severity", JStr("low")).s,
                                      IF DictGet(event, "risk_score", JNum(0)).t = "number"
                                      THEN DictGet(event, "risk_score", JNum(0)).n
                                      ELSE 0),
                         sns_ok, ses_ok),
            dynamo_ok)

\* lambda_function.py:75-142, with the alert table before the call and what
\* datetime.now() reads; the channels and DynamoDB answer as sns_ok, ses_ok
\* and dynamo_ok say.
process_security_alert(event, table, now, sns_ok, ses_ok, dynamo_ok) ==
    IF DispatchRaises(event)
    THEN DispatchRaised(table)
    ELSE RecordAndRespond(
            event, table, now,
            ChannelCalls(event,
                         SecurityTier(DictGet(event, "severity", JStr("low")).s,
                                      IF DictGet(event, "risk_score", JNum(0)).t = "number"
                                      THEN DictGet(event, "risk_score", JNum(0)).n
                                      ELSE 0),
                         sns_ok, ses_ok),
            dynamo_ok)

\* ------------------------------------------------ the functions on their own

VARIABLES
    call_args,    \* the arguments of one call of a function under study
    call_result,  \* what the call returned; NotCalled before it
    clock         \* what datetime.now() reads

callVars == <<call_args, call_result, clock>>
NotCalled == [called |-> FALSE]
NoCall == call_args = NotCalled /\ call_result = NotCalled /\ clock = 0

\* Baselines a detector call may find under the key of ("a", "c"): none, or
\* one with the mean and the standard deviation drawn here.
DetectMeans == {Rat(0, 1), Rat(100, 1), Rat(21, 2)}
DetectStddevs == {0, 1, 10}
DetectBaselines ==
    {<<>>}
    \cup {BaselineKey("a", "c") :>
             [avg |-> m, stddev_sq |-> Rat(sd * sd, 1), min |-> 0, max |-> 200,
              sample_count |-> BASELINE_MIN_SAMPLES] :
          m \in DetectMeans, sd \in DetectStddevs}
DetectValues ==
    {JNum(v) : v \in {0, 10, 12, 13, 85, 100, 115, 116, 120, 121, 130, 131, 135}}
    \cup {JNull, JStr("n/a")}
DetectMetrics ==
    {JObject([value |-> v]) : v \in DetectValues} \cup {JObject(<<>>)}
DetectInputs ==
    [baselines : DetectBaselines, current_metric : DetectMetrics,
     customer_id : {"a"}, metric_type : {"c", "b_c"}]

DetectArgs ==
    call_args \in DetectInputs /\ call_result = NotCalled /\ clock = 0
DetectCall ==
    /\ call_result = NotCalled
    /\ call_result' = detect_anomalies(call_args.baselines, call_args.current_metric,
                                       call_args.customer_id, call_args.metric_type)
    /\ UNCHANGED <<call_args, clock>>

\* Events a classifier call may get: a description made of any of these
\* phrases, with any declared severity.
Phrases ==
    <<"Authentication failed", "invalid credentials", "Trojan", "virus detected",
      "port scan", "admin access", "data export">>
PhraseChoices == SUBSET (1..Len(Phrases))
Description(choice) ==
    JoinWith(SelectSeq(Phrases, LAMBDA ph : \E i \in choice : Phrases[i] = ph), " ")
DeclaredSeverities == {"low", "high", "critical"}
PhraseEvent(choice, sev) ==
    JObject([description |-> JStr(Description(choice)), severity |-> JStr(sev)])
\* A Python value json.dumps raises on (bytes, a set, a datetime).
Unserializable == [t |-> "bytes"]
ClassifyEvents ==
    {PhraseEvent(choice, sev) : choice \in PhraseChoices, sev \in DeclaredSeverities}
    \cup {Unserializable}

ClassifyArgs ==
    call_args \in ClassifyEvents /\ call_result = NotCalled /\ clock = 0
ClassifyCall ==
    /\ call_result = NotCalled
    /\ call_result' = classify_threat(call_args)
    /\ UNCHANGED <<call_args, clock>>

\* Batches a call of the aggregator may get, by the number of samples of each
\* kind: samples of group ("a", "c") with value 1, 2, 3 or null, and samples of
\* group ("b", "c") with value 5, MaxBatch samples at most.
BatchCounts ==
    {k \in [1..5 -> 0..MaxBatch] : k[1] + k[2] + k[3] + k[4] + k[5] <= MaxBatch}
Repeat(x, n) == [i \in 1..n |-> x]
Batch(k) ==
    Repeat(MetricObject("a", "c", JNum(3)), k[3])
    \o Repeat(MetricObject("b", "c", JNum(5)), k[5])
    \o Repeat(MetricObject("a", "c", JNum(1)), k[1])
    \o Repeat(MetricObject("a", "c", JNull), k[4])
    \o Repeat(MetricObject("a", "c", JNum(2)), k[2])

AggregateArgs ==
    call_args \in {Batch(k) : k \in BatchCounts} /\ call_result = NotCalled /\ clock = 0
\* calculate_aggregations on the batch.
AggregateCall ==
    /\ call_result = NotCalled
    /\ call_result' = [aggregations |-> calculate_aggregations(call_args)]
    /\ UNCHANGED <<call_args, clock>>
\* One pass of generate_aggregations with the batch in every window.
GenerateCall ==
    /\ call_result = NotCalled
    /\ call_result' = [stored |-> generate_aggregations([w \in WindowNames |-> call_args])]
    /\ UNCHANGED <<call_args, clock>>

\* Two calls of classify_threat on one event, the clock running on.
RepeatArgs == call_args \in ClassifyEvents /\ call_result = <<>> /\ clock = 0
RepeatedClassifyCall ==
    /\ Len(call_result) < 2
    /\ call_result' = Append(call_result, classify_threat_at(call_args, clock))
    /\ UNCHANGED <<call_args, clock>>
ClockTick ==
    /\ clock < MaxClock
    /\ clock' = clock + 1
    /\ UNCHANGED <<call_args, call_result>>

\* Alerts a call of the dispatcher may get: what trigger_alert sends, for any
\* severity and a risk score on either side of each routing threshold, and an
\* alert whose severity is null.
AlertSeverities == {"low", "medium", "high", "critical"}
AlertRiskScores == {0, 60, 61, 80, 81}
AlertCustomers == {"a", "b"}
AlertEvent(severity, risk_score, customer_id) ==
    JObject([alert_type |-> JStr("security_threat"), severity |-> severity,
             risk_score |-> JNum(risk_score),
             threats |-> JArray(<<JStr("malware")>>),
             customer_id |-> JStr(customer_id), event_id |-> JStr("sec_0")])
AlertEvents ==
    {AlertEvent(JStr(sev), risk, c) :
        sev \in AlertSeverities, risk \in AlertRiskScores, c \in AlertCustomers}
    \cup {AlertEvent(JNull, 0, "a")}
DispatchInputs ==
    [event : AlertEvents, sns_ok : BOOLEAN, ses_ok : BOOLEAN, dynamo_ok : BOOLEAN]

DispatchArgs ==
    call_args \in DispatchInputs /\ call_result = NotCalled /\ clock = 0
DispatchCall ==
    /\ call_result = NotCalled
    /\ call_result' = process_security_alert(call_args.event, <<>>, clock,
                                             call_args.sns_ok, call_args.ses_ok,
                                             call_args.dynamo_ok)
    /\ UNCHANGED <<call_args, clock>>

\* Two alerts of different source events handed to the dispatcher one after
\* the other, the second call finding the table the first one left.
SourceAlert(event_id, severity) ==
    JObject([alert_type |-> JStr("security_threat"), severity |-> JStr(severity),
             risk_score |-> JNum(25),
             threats |-> JArray(<<JStr("malware")>>),
             customer_id |-> JStr("a"), event_id |-> JStr(event_id)])
SourceAlertPairs ==
    {<<SourceAlert(id[1], sev[1]), SourceAlert(id[2], sev[2])>> :
        id \in {<<"sec_0_0", "sec_0_1">>, <<"sec_0_0", "sec_0_0">>},
        sev \in {"medium", "high"} \X {"medium", "high"}}
RedispatchArgs ==
    /\ call_args \in [alerts : SourceAlertPairs, sns_ok : BOOLEAN, dynamo_ok : BOOLEAN]
    /\ call_result = <<>>
    /\ clock = 0
RedispatchCall ==
    /\ Len(call_result) < 2
    /\ call_result' =
          Append(call_result,
                 process_security_alert(
                     call_args.alerts[Len(call_result) + 1],
                     IF call_result = <<>> THEN <<>> ELSE call_result[1].table,
                     clock, call_args.sns_ok, TRUE, call_args.dynamo_ok))
    /\ UNCHANGED <<call_args, clock>>

\* --------------------------------------------------------- specifications

vars ==
    <<metricsVars, securityVars, lambda_invocations, callVars, exitVars,
      aggregationVars>>

\* Both processors constructed and consuming, nothing invoked yet.
ProcessorsInit ==
    /\ MetricsInit /\ SecurityInit /\ lambda_invocations = <<>>
    /\ security_exit = NotExited /\ metrics_exit = NotExited
    /\ aggregation_count = 0 /\ silver_metrics = <<>>
    /\ aggregation_thread = AggregationIdle
Init == ProcessorsInit /\ NoCall
DetectInit == ProcessorsInit /\ DetectArgs
ClassifyInit == ProcessorsInit /\ ClassifyArgs

\* S3 refuses a write at most MaxStoreFailures times in a run, and the alert
\* Lambda an invocation at most MaxAlertFailures times.
MetricsS3Outcomes ==
    IF metrics_store_failures < MaxStoreFailures THEN BOOLEAN ELSE {TRUE}
SecurityS3Outcomes ==
    IF security_store_failures < MaxStoreFailures THEN BOOLEAN ELSE {TRUE}
LambdaOutcomes ==
    IF alert_failures < MaxAlertFailures THEN BOOLEAN ELSE {TRUE}

\* The baseline store and the detector under every interleaving of the streams.
BaselineNext ==
    /\ metrics_position < MaxSamples
    /\ \E value \in SamplePayloads : MetricsConsume(value, TRUE)
    /\ UNCHANGED <<securityVars, callVars, exitVars, aggregationVars>>

SpecBaseline ==
    /\ Init
    /\ [][BaselineNext]_vars

\* The consumption path of the metrics processor: payload shapes, store
\* failures, offset commits.
MetricsNext ==
    \/ /\ metrics_position < MaxMessages
       /\ \E value \in ShapePayloads, s3_ok \in MetricsS3Outcomes :
             MetricsConsume(value, s3_ok)
       /\ UNCHANGED <<securityVars, callVars, exitVars, aggregationVars>>
    \/ /\ metrics_position < MaxMessages
       /\ MetricsDeserializeError
       /\ UNCHANGED <<securityVars, callVars, exitVars, aggregationVars>>
    \/ /\ MetricsAutoCommit
       /\ UNCHANGED <<securityVars, callVars, exitVars, aggregationVars>>

SpecMetrics ==
    /\ Init
    /\ [][MetricsNext]_vars

\* The consumption path of the security event processor.
SecurityNext ==
    \/ /\ security_position < MaxEvents
       /\ \E value \in SecurityPayloads, s3_ok \in SecurityS3Outcomes,
             lambda_ok \in LambdaOutcomes :
             SecurityConsume(value, s3_ok, lambda_ok)
       /\ UNCHANGED <<metricsVars, callVars, exitVars, aggregationVars>>
    \/ /\ security_position < MaxEvents
       /\ SecurityDeserializeError
       /\ UNCHANGED <<metricsVars, callVars, exitVars, aggregationVars>>
    \/ /\ SecurityAutoCommit
       /\ UNCHANGED <<metricsVars, callVars, exitVars, aggregationVars>>

SpecSecurity ==
    /\ Init
    /\ [][SecurityNext]_vars

\* detect_anomalies on every drawn baseline and sample.
DetectNext ==
    /\ DetectCall
    /\ UNCHANGED <<metricsVars, securityVars, lambda_invocations, exitVars, aggregationVars>>

SpecDetect ==
    /\ DetectInit
    /\ [][DetectNext]_vars

\* classify_threat on every drawn event.
ClassifyNext ==
    /\ ClassifyCall
    /\ UNCHANGED <<metricsVars, securityVars, lambda_invocations, exitVars, aggregationVars>>

SpecClassify ==
    /\ ClassifyInit
    /\ [][ClassifyNext]_vars

\* calculate_aggregations and generate_aggregations on every drawn batch.
AggregateInit == ProcessorsInit /\ AggregateArgs
AggregateNext ==
    \/ /\ AggregateCall
       /\ UNCHANGED <<metricsVars, securityVars, lambda_invocations, exitVars, aggregationVars>>
    \/ /\ GenerateCall
       /\ UNCHANGED <<metricsVars, securityVars, lambda_invocations, exitVars, aggregationVars>>

SpecAggregate ==
    /\ AggregateInit
    /\ [][AggregateNext]_vars

\* classify_threat called twice on every drawn event, at any two moments.
RepeatInit == ProcessorsInit /\ RepeatArgs
RepeatNext ==
    \/ /\ RepeatedClassifyCall
       /\ UNCHANGED <<metricsVars, securityVars, lambda_invocations, exitVars, aggregationVars>>
    \/ /\ ClockTick
       /\ UNCHANGED <<metricsVars, securityVars, lambda_invocations, exitVars, aggregationVars>>

SpecRepeat ==
    /\ RepeatInit
    /\ [][RepeatNext]_vars

\* process_security_alert on every drawn alert and channel outcome.
DispatchInit == ProcessorsInit /\ DispatchArgs
DispatchNext ==
    /\ DispatchCall
    /\ UNCHANGED <<metricsVars, securityVars, lambda_invocations, exitVars, aggregationVars>>

SpecDispatch ==
    /\ DispatchInit
    /\ [][DispatchNext]_vars

\* Two dispatches into one alert table, within one second or seconds apart.
RedispatchInit == ProcessorsInit /\ RedispatchArgs
RedispatchNext ==
    \/ /\ RedispatchCall
       /\ UNCHANGED <<metricsVars, securityVars, lambda_invocations, exitVars, aggregationVars>>
    \/ /\ ClockTick
       /\ UNCHANGED <<metricsVars, securityVars, lambda_invocations, exitVars, aggregationVars>>

SpecRedispatch ==
    /\ RedispatchInit
    /\ [][RedispatchNext]_vars

\* The sliding windows under every interleaving of two tenants' samples.
WindowsNext ==
    /\ metrics_position < MaxWindowSamples
    /\ \E value \in TenantPayloads : MetricsConsume(value, TRUE)
    /\ UNCHANGED <<securityVars, callVars, exitVars, aggregationVars>>

SpecWindows ==
    /\ Init
    /\ [][WindowsNext]_vars

\* run() of the security event processor from its start to the end of main():
\* the broker reachable or not, messages, idle periods and shutdown signals.
\* The constructor of the consumer returns or raises, and between two returns
\* of the consumer's iterator at most ten seconds pass (app.py:78), so the
\* next step of the main thread is not put off for ever.
SecurityRunStart ==
    /\ MetricsInit /\ SecurityRunInit /\ lambda_invocations = <<>>
    /\ security_exit = NotExited /\ metrics_exit = NotExited
    /\ aggregation_count = 0 /\ silver_metrics = <<>>
    /\ aggregation_thread = AggregationIdle
    /\ NoCall
SecurityIteratorNext ==
    \/ /\ security_position < MaxEvents
       /\ \E value \in SecurityPayloads, s3_ok \in SecurityS3Outcomes,
             lambda_ok \in LambdaOutcomes :
             SecurityRunConsume(value, s3_ok, lambda_ok)
       /\ UNCHANGED <<metricsVars, callVars, aggregationVars>>
    \/ /\ security_position < MaxEvents
       /\ SecurityRunDeserializeError
       /\ UNCHANGED <<metricsVars, callVars, aggregationVars>>
    \/ /\ SecurityConsumerTimeout
       /\ UNCHANGED <<metricsVars, callVars, aggregationVars>>
SecurityMainThread ==
    \/ /\ \E reachable \in BOOLEAN : SecuritySetupConsumer(reachable)
       /\ UNCHANGED <<metricsVars, callVars, aggregationVars>>
    \/ SecurityIteratorNext
SecurityRunNext ==
    \/ SecurityMainThread
    \/ /\ SecuritySignalHandler
       /\ UNCHANGED <<metricsVars, callVars, aggregationVars>>
    \/ /\ SecurityAutoCommit
       /\ UNCHANGED <<metricsVars, callVars, exitVars, aggregationVars>>

SpecSecurityRun ==
    /\ SecurityRunStart
    /\ [][SecurityRunNext]_vars
    /\ WF_vars(SecurityMainThread)

\* run() of the metrics processor with its aggregation thread: one tenant's
\* samples, idle periods, shutdown signals, and the passes of the thread at
\* any moment between the steps of the main thread.
RunSample == MetricObject("a", "c", JNum(10))
MetricsRunStart ==
    /\ MetricsRunInit /\ SecurityInit /\ lambda_invocations = <<>>
    /\ security_exit = NotExited /\ metrics_exit = NotExited
    /\ NoCall
MetricsRunNext ==
    \/ /\ \E reachable \in BOOLEAN : MetricsSetupConsumer(reachable)
       /\ UNCHANGED <<securityVars, callVars, aggregationVars>>
    \/ /\ metrics_position < MaxRunSamples
       /\ \E s3_ok \in MetricsS3Outcomes : MetricsRunConsume(RunSample, s3_ok)
       /\ UNCHANGED <<securityVars, callVars, aggregationVars>>
    \/ /\ metrics_position < MaxRunSamples
       /\ MetricsRunDeserializeError
       /\ UNCHANGED <<securityVars, callVars, aggregationVars>>
    \/ /\ MetricsConsumerTimeout
       /\ UNCHANGED <<securityVars, callVars, aggregationVars>>
    \/ /\ MetricsSignalHandler
       /\ UNCHANGED <<securityVars, callVars, aggregationVars>>
    \/ /\ aggregation_count < MaxAggregations \/ ~metrics_running
       /\ AggLoopTest
       /\ UNCHANGED <<metricsVars, securityVars, lambda_invocations, callVars, exitVars>>
    \/ /\ AggNextWindow
       /\ UNCHANGED <<metricsVars, securityVars, lambda_invocations, callVars, exitVars>>
    \/ /\ AggGroupWindow
       /\ UNCHANGED <<metricsVars, securityVars, lambda_invocations, callVars, exitVars>>
    \/ /\ \E s3_ok \in BOOLEAN : AggStore(s3_ok)
       /\ UNCHANGED <<metricsVars, securityVars, lambda_invocations, callVars, exitVars>>
    \/ /\ AggWake
       /\ UNCHANGED <<metricsVars, securityVars, lambda_invocations, callVars, exitVars>>

SpecMetricsRun ==
    /\ MetricsRunStart
    /\ [][MetricsRunNext]_vars

\* ------------------------------------------------------------- properties

\* The (customer_id, metric_type) pair process_metric reads from a payload.
PayloadPair(payload) ==
    <<FormatStr(DictGet(payload, "customer_id", JStr("unknown"))),
      FormatStr(DictGet(payload, "metric_type", JStr("unknown")))>>

\* This step is process_metric running to its end on one sample.
SampleProcessed ==
    /\ metrics_position' = metrics_position + 1
    /\ metrics_last'.completed

\* C1: the anomaly result attached to a sample is the detector's verdict on
\* the baseline as it stood before the step that processed the sample, never
\* on the baseline that step leaves behind.
C1_DetectionPrecedesUpdate ==
    [][SampleProcessed =>
          LET payload == metrics_last'.payload
              pair == PayloadPair(payload)
          IN metrics_last'.anomaly_analysis =
                detect_anomalies(baseline_metrics, payload, pair[1], pair[2])]_vars

\* C1 witness: after BASELINE_MIN_SAMPLES samples of value 10, a sample of
\* value 100 has just been tested against mean 10.
C1_Witness ==
    /\ <<"a_b", "c">> \in DOMAIN samples_seen
    /\ samples_seen[<<"a_b", "c">>] = [i \in 1..BASELINE_MIN_SAMPLES |-> 10] \o <<100>>
    /\ metrics_last.completed
    /\ metrics_last.payload = MetricObject("a_b", "c", JNum(100))
    /\ metrics_last.anomaly_analysis.baseline_available
    /\ RatEq(metrics_last.anomaly_analysis.baseline_avg, Rat(10, 1))
    /\ ~RatEq(baseline_metrics[BaselineKey("a_b", "c")].avg, Rat(10, 1))

\* C2: a message whose store write failed is not committed: the committed
\* offset stays at or below the offset of that message.
C2_CommitOnlyAfterStore ==
    (security_last.completed /\ ~security_last.stored)
        => security_committed <= security_last.offset

\* The severity the thresholds give a sample against a baseline.
ThresholdSeverity(value, baseline) ==
    LET z_sq == ZScoreSquared(value, baseline.avg, baseline.stddev_sq)
    IN IF z_sq.num > 9 * z_sq.den THEN "critical"
       ELSE IF z_sq.num > 4 * z_sq.den THEN "high"
       ELSE IF z_sq.num * 4 > 9 * z_sq.den THEN "medium"
       ELSE "normal"

\* C3: every result detect_anomalies returns has is_anomaly true exactly when
\* its severity is not normal, and with a baseline for the key the severity
\* is the one the z-score thresholds give.
C3_SeverityAndFlagAgree ==
    call_result # NotCalled =>
        /\ call_result.is_anomaly <=> call_result.severity # "normal"
        /\ LET key == BaselineKey(call_args.customer_id, call_args.metric_type)
               raw == DictGet(call_args.current_metric, "value", JNum(0))
           IN (HasBaseline(call_args.baselines, key) /\ FloatOk(raw)) =>
                 call_result.severity =
                    ThresholdSeverity(ToFloat(raw), call_args.baselines[key])

\* The threat category each phrase of Phrases belongs to.
PhraseCategory ==
    <<"failed_login", "failed_login", "malware", "malware", "network_anomaly",
      "privilege_escalation", "data_exfiltration">>
Categories(choice) == {PhraseCategory[i] : i \in choice}
Min(a, b) == IF a < b THEN a ELSE b

\* C4 (amended): the severity is high when the event text matches two or
\* more categories, medium when it matches exactly one, low when it matches
\* none, whatever severity the event declares; the risk score is 25 per
\* matched category, at most 100.
C4_SeverityFromMatchCount ==
    \A choice \in PhraseChoices, sev \in DeclaredSeverities :
        (call_args = PhraseEvent(choice, sev) /\ call_result # NotCalled) =>
            LET n == Cardinality(Categories(choice))
            IN /\ call_result.severity =
                     (IF n >= 2 THEN "high" ELSE IF n = 1 THEN "medium" ELSE "low")
               /\ call_result.risk_score = Min(25 * n, 100)
               /\ {call_result.threats_detected[i] :
                      i \in DOMAIN call_result.threats_detected} = Categories(choice)

\* C4 witness: an event matching only failed_login and declaring severity
\* high has been classified medium with risk score 25.
C4_Witness ==
    /\ call_args = PhraseEvent({1}, "high")
    /\ call_result # NotCalled
    /\ call_result.threats_detected = <<"failed_login">>
    /\ call_result.severity = "medium"
    /\ call_result.risk_score = 25

\* C4 as stated: critical with two or more categories or a declared severity
\* of critical, high with exactly one category or a declared severity of
\* high, low otherwise.
C4_StatedPolicy ==
    \A choice \in PhraseChoices, sev \in DeclaredSeverities :
        (call_args = PhraseEvent(choice, sev) /\ call_result # NotCalled) =>
            LET n == Cardinality(Categories(choice))
            IN call_result.severity =
                  (IF n >= 2 \/ sev = "critical" THEN "critical"
                   ELSE IF n = 1 \/ sev = "high" THEN "high"
                   ELSE "low")

\* C5: a metric sample whose anomaly result has is_anomaly true has been
\* forwarded to the alert dispatcher.
C5_AnomaliesForwarded ==
    (metrics_last.completed /\ metrics_last.anomaly_analysis.is_anomaly)
        => Len(lambda_invocations) > 0

\* C6: whatever the payload of a consumed message, the loop is still
\* consuming after it, and unless S3 refused a write the message has been
\* classified and written to the bronze store.
C6_NoMessageStopsOrIsLost ==
    /\ security_pc = "consuming"
    /\ (security_last.offset >= 0 /\ security_store_failures = 0)
          => /\ security_last.classification # JNull
             /\ security_last.stored

\* The baseline detect_anomalies uses for a pair, if there is one.
BaselineOf(baselines, pair) ==
    IF HasBaseline(baselines, BaselineKey(pair[1], pair[2]))
    THEN baselines[BaselineKey(pair[1], pair[2])]
    ELSE [sample_count |-> 0]

\* C7: over any update the sample_count of a pair's baseline never decreases.
C7_SampleCountNeverDecreases ==
    [][\A pair \in MetricStreams :
          BaselineOf(baseline_metrics', pair).sample_count
             >= BaselineOf(baseline_metrics, pair).sample_count]_vars

\* C8: a sample of a pair that has fewer than BASELINE_MIN_SAMPLES samples
\* recorded is never flagged as an anomaly.
C8_NoFlagBeforeBaseline ==
    [][SampleProcessed =>
          LET pair == PayloadPair(metrics_last'.payload)
          IN Len(History(customer_metrics, pair[1], pair[2])) < BASELINE_MIN_SAMPLES
                => ~metrics_last'.anomaly_analysis.is_anomaly]_vars

\* The last n elements of a sequence, all of it when it is shorter.
LastN(s, n) == IF Len(s) > n THEN SubSeq(s, Len(s) - n + 1, Len(s)) ELSE s

\* C9: the history of every pair holds at most HISTORY_CAP samples, and it is
\* the most recent min(N, HISTORY_CAP) of the N samples recorded for the
\* pair, in arrival order.
C9_HistoryIsMostRecentSamples ==
    \A pair \in DOMAIN samples_seen :
        /\ Len(History(customer_metrics, pair[1], pair[2])) <= HISTORY_CAP
        /\ History(customer_metrics, pair[1], pair[2])
              = LastN(samples_seen[pair], HISTORY_CAP)

\* C9 witness: a pair has recorded more samples than the cap, the oldest of
\* them differs from the rest, and it is the one no longer in the history.
C9_Witness ==
    /\ <<"a_b", "c">> \in DOMAIN samples_seen
    /\ samples_seen[<<"a_b", "c">>] = <<100>> \o [i \in 1..HISTORY_CAP |-> 10 + (i % 2)]
    /\ customer_metrics[<<"a_b", "c">>] = [i \in 1..HISTORY_CAP |-> 10 + (i % 2)]

\* C10: a step that processes a sample of one pair leaves the baseline of
\* every other pair as it was.
C10_OtherPairsUntouched ==
    [][SampleProcessed =>
          \A pair \in MetricStreams :
              pair # PayloadPair(metrics_last'.payload)
                 => BaselineOf(baseline_metrics', pair)
                       = BaselineOf(baseline_metrics, pair)]_vars

\* The samples of a batch that carry a value.
ValuedSamples(batch) == SelectSeq(batch, HasValue)
RatLE(x, y) == ~RatGT(x, y)

PercentilesOrdered(aggregations) ==
    /\ {"p50", "p90", "p95", "p99"} \subseteq DOMAIN aggregations
    /\ RatLE(Rat(aggregations.min, 1), aggregations.p50)
    /\ RatLE(aggregations.p50, Rat(aggregations.p90, 1))
    /\ aggregations.p90 <= aggregations.p95
    /\ aggregations.p95 <= aggregations.p99
    /\ aggregations.p99 <= aggregations.max

\* C12 (amended): when 10 or more samples of the batch carry a value, the
\* result has min <= p50 <= p90 <= p95 <= p99 <= max and its count is the
\* number of samples that carry a value.
C12_PercentilesOrderedOverValues ==
    ("aggregations" \in DOMAIN call_result /\ Len(ValuedSamples(call_args)) >= 10)
        => /\ PercentilesOrdered(call_result.aggregations)
           /\ call_result.aggregations.count = Len(ValuedSamples(call_args))

\* C12 witness: a batch of eleven samples, ten of them with a value, has been
\* aggregated: count 10, and the percentiles are spread between min and max.
C12_Witness ==
    /\ "aggregations" \in DOMAIN call_result
    /\ Len(call_args) = 11
    /\ Len(ValuedSamples(call_args)) = 10
    /\ call_result.aggregations.count = 10
    /\ call_result.aggregations.min = 1
    /\ call_result.aggregations.p50 = Rat(4, 2)
    /\ call_result.aggregations.p90 = 3
    /\ call_result.aggregations.max = 3

\* C12 as stated: for a batch of 10 or more samples the percentiles are
\* ordered and the count is the number of samples passed in.
C12_CountIsBatchLength ==
    ("aggregations" \in DOMAIN call_result /\ Len(call_args) >= 10)
        => /\ PercentilesOrdered(call_result.aggregations)
           /\ call_result.aggregations.count = Len(call_args)

\* C13: the risk score of every classified event is 25 for each matched
\* category and at most 100, it lies in 0..100, and a category is counted once
\* however many of its phrases the event holds.
C13_RiskScoreFromCategories ==
    call_result # NotCalled =>
        LET threats == call_result.threats_detected
        IN /\ call_result.risk_score = Min(100, 25 * Len(threats))
           /\ call_result.risk_score \in 0..100
           /\ \A i, j \in DOMAIN threats : threats[i] = threats[j] => i = j
           /\ \A choice \in PhraseChoices, sev \in DeclaredSeverities :
                 call_args = PhraseEvent(choice, sev)
                    => Len(threats) = Cardinality(Categories(choice))

\* C13 witness: an event holding every phrase, two of them of one category
\* twice over, has been classified with five categories and risk score 100.
C13_Witness ==
    /\ call_args = PhraseEvent(1..Len(Phrases), "low")
    /\ call_result # NotCalled
    /\ Len(call_result.threats_detected) = 5
    /\ call_result.risk_score = 100

\* C14: two calls of classify_threat on the same event return the same
\* value in every field.
C14_SameEventSameClassification ==
    Len(call_result) = 2 => call_result[1] = call_result[2]

\* C15: on an input it cannot process classify_threat returns severity low,
\* risk score 0 and no detected category.
C15_FailOpenDefaults ==
    (call_result # NotCalled /\ ~JsonSerializable(call_args)) =>
        /\ call_result.severity = "low"
        /\ call_result.risk_score = 0
        /\ call_result.threats_detected = <<>>

\* C16: an alert has been dispatched for a message only if the bronze record
\* of that message has been stored.
C16_AlertOnlyAfterStore ==
    security_last.alerted => security_last.stored

\* C17: a step in which the alert invoke raises still completes process_event
\* and counts the event as processed, counts no alert, invokes nothing, and
\* leaves the loop consuming.
C17_AlertFailureDoesNotBlock ==
    [][alert_failures' = alert_failures + 1 =>
          /\ security_last'.completed
          /\ security_last'.alert_attempted /\ ~security_last'.alerted
          /\ security_processed_count' = security_processed_count + 1
          /\ alert_count' = alert_count
          /\ lambda_invocations' = lambda_invocations
          /\ security_pc' = "consuming" /\ security_running']_vars

\* C17 witness: after an event whose alert invoke raised, a later event has
\* been consumed and its alert dispatched.
C17_Witness ==
    /\ alert_failures = 1
    /\ security_processed_count = 2
    /\ alert_count = 1
    /\ security_last.completed /\ security_last.alerted
    /\ security_last.offset = 1

\* The alert, its severity and risk score, and what came of the dispatch.
Dispatched == call_result # NotCalled /\ ~call_result.raised
AlertSeverity == DictGet(call_args.event, "severity", JStr("low")).s
AlertRisk == DictGet(call_args.event, "risk_score", JNum(0)).n
ChannelsCalled ==
    [i \in 1..Len(call_result.calls) |->
        <<call_result.calls[i].channel, call_result.calls[i].priority>>]
UrgentWithTicket ==
    <<<<"sns", "CRITICAL">>, <<"email", "CRITICAL">>, <<"ticket", "CRITICAL">>>>
UrgentOnly == <<<<"sns", "HIGH">>, <<"email", "HIGH">>>>
StandardOnly == <<<<"sns", "MEDIUM">>>>
SentTexts ==
    {"SNS notification sent", "Email sent", "Incident ticket created (placeholder)"}

C19_RecordPersistedDespiteChannelFailures ==
    (call_result # NotCalled
        /\ DictGet(call_args.event, "severity", JStr("low")).t = "string") =>
        /\ ~call_result.raised
        /\ call_result.store_called
        /\ call_result.response.alert_id = "sec_" \o ToString(clock)
        /\ call_args.dynamo_ok =>
              /\ DOMAIN call_result.table = {call_result.response.alert_id}
              /\ call_result.table[call_result.response.alert_id].actions_taken
                    = call_result.response.actions_taken
              /\ call_result.table[call_result.response.alert_id].severity
                    = JStr(AlertSeverity)

\* C19 witness: a critical alert whose SNS and email calls both failed has
\* its record in the table.
C19_Witness ==
    /\ Dispatched
    /\ AlertSeverity = "critical"
    /\ ~call_args.sns_ok /\ ~call_args.ses_ok
    /\ call_result.response.alert_id \in DOMAIN call_result.table

\* C20 (as the code has it): every channel of the route is called whatever
\* the earlier calls did; actions_taken has one entry per call made, in call
\* order, and the entry is the text of a delivery exactly when the call
\* succeeded and an error text when it failed.
C20_OneEntryPerCallMade ==
    Dispatched =>
        /\ Len(call_result.calls) =
              IF AlertSeverity = "critical" \/ AlertRisk > 80 THEN 3
              ELSE IF AlertSeverity = "high" \/ AlertRisk > 60 THEN 2
              ELSE 1
        /\ Len(call_result.response.actions_taken) = Len(call_result.calls)
        /\ \A i \in 1..Len(call_result.calls) :
              /\ call_result.response.actions_taken[i] = call_result.calls[i].text
              /\ call_result.calls[i].text \in SentTexts <=> call_result.calls[i].ok
              /\ call_result.calls[i].ok =
                    CASE call_result.calls[i].channel = "sns" -> call_args.sns_ok
                      [] call_result.calls[i].channel = "email" -> call_args.ses_ok
                      [] OTHER -> TRUE

\* C20 witness: the SNS call of a critical alert failed, the email and the
\* ticket followed, and the record lists all three.
C20_Witness ==
    /\ Dispatched
    /\ ~call_args.sns_ok /\ call_args.ses_ok /\ call_args.dynamo_ok
    /\ call_result.table[call_result.response.alert_id].actions_taken =
          <<"SNS error", "Email sent", "Incident ticket created (placeholder)">>

\* C20 as stated: the record lists the channels whose call succeeded and no
\* other.
C20_OnlySucceededChannelsListed ==
    Dispatched =>
        Len(call_result.response.actions_taken) =
            Cardinality({i \in 1..Len(call_result.calls) : call_result.calls[i].ok})

\* C21: two dispatches of alerts of different source events write under
\* different alert_ids, so the record of the first is still in the table,
\* as it was written, after the second.
C21_DistinctEventsDistinctAlertIds ==
    (/\ Len(call_result) = 2
     /\ DictGet(call_args.alerts[1], "event_id", JNull)
           # DictGet(call_args.alerts[2], "event_id", JNull)
     /\ call_args.dynamo_ok) =>
        /\ call_result[1].response.alert_id # call_result[2].response.alert_id
        /\ call_result[2].table[call_result[1].response.alert_id]
              = call_result[1].table[call_result[1].response.alert_id]

\* C22: no window ever holds more samples than its capacity; a sample that
\* arrives at a full window takes the place of the oldest one, and the
\* iteration that brought it completes.
C22_WindowsStayWithinCapacity ==
    [][\A w \in WindowNames :
          /\ Len(metrics_windows'[w]) <= WindowMaxlen[w]
          /\ Len(metrics_windows[w]) = WindowMaxlen[w] =>
                /\ metrics_windows'[w] =
                      Append(Tail(metrics_windows[w]), metrics_last'.payload)
                /\ metrics_last'.completed
                /\ metrics_pc' = "consuming"]_vars

\* C22 witness: the 1min window is full and has dropped a sample.
C22_Witness ==
    /\ Len(metrics_windows["1min"]) = WINDOW_1MIN_MAXLEN
    /\ metrics_processed_count > WINDOW_1MIN_MAXLEN
    /\ metrics_last.completed

\* C30: a step that takes in a sample of one tenant leaves the samples every
\* other tenant has in each window as they were.
C30_OtherTenantsSamplesStay ==
    [][\A w \in WindowNames, p \in TenantStreams :
          p # PayloadPair(metrics_last'.payload) =>
              GroupMetrics(metrics_windows'[w], p) = GroupMetrics(metrics_windows[w], p)]_vars

C25_StartupFailureIsFatal ==
    security_exit.cause = "setup" =>
        /\ security_processed_count = 0
        /\ security_position = 0
        /\ security_exit.status # 0

\* C28: the consumption loop, once it has its consumer, is left only on a
\* shutdown signal or an error, and running is set to false only then.
C28_LoopEndsOnlyOnSignalOrError ==
    [][(security_pc = "consuming" /\
          (security_pc' = "exited" \/ (security_running /\ ~security_running'))) =>
             \/ ~security_running'  /\ security_pc' = "consuming"
             \/ security_exit'.cause \in {"signal", "error"}]_vars

\* C29: every event that is enriched gets the processed count of that moment
\* in its event_id and the count then goes up by one, whether or not the
\* store or the alert failed; so every bronze object carries an id below the
\* count, and an id that is written was never written before.
C29_RecordIdsNeverRepeat ==
    [][/\ \A id \in DOMAIN bronze_security' :
             /\ id < security_processed_count'
             /\ bronze_security'[id].processing_metadata.event_id = id
       /\ (security_position' # security_position /\ security_last'.completed) =>
             /\ security_processed_count' = security_processed_count + 1
             /\ security_last'.stored =>
                   /\ security_processed_count \notin DOMAIN bronze_security
                   /\ security_processed_count \in DOMAIN bronze_security'
       /\ (security_position' = security_position \/ ~security_last'.completed) =>
             /\ security_processed_count' = security_processed_count
             /\ bronze_security' = bronze_security]_vars

\* C29 witness: of three events the first was refused by S3 and the alert of
\* the second raised; the second and the third are stored under their ids.
C29_Witness ==
    /\ security_store_failures = 1 /\ alert_failures = 1
    /\ security_processed_count = 3
    /\ DOMAIN bronze_security = {1, 2}

\* The sample counts of the aggregations of one window in the silver bucket.
RECURSIVE SamplesAggregated(_, _)
SamplesAggregated(stored, w) ==
    IF stored = <<>> THEN 0
    ELSE SamplesAggregated(Tail(stored), w)
         + IF Head(stored).aggregation_metadata.window = w
           THEN Head(stored).aggregation_metadata.sample_count
           ELSE 0

\* An aggregation pass is under way and has silver writes still to make: an
\* aggregated metric not yet stored, or a window of 10 samples or more that
\* it has not finished.
PassHasWritesLeft ==
    /\ aggregation_thread.pc \in {"windows", "iterating", "storing"}
    /\ \/ aggregation_thread.pending # <<>>
       \/ \E i \in 1..Len(aggregation_thread.todo) :
             /\ i > 1 \/ aggregation_thread.pc # "storing"
             /\ Len(metrics_windows[aggregation_thread.todo[i]])
                   >= AGGREGATION_WINDOW_MIN

\* C24: when the process has ended after a shutdown signal, no aggregation
\* pass has been left with silver writes it did not make.
C24_PassCompletesBeforeExit ==
    metrics_exit.cause = "signal" => ~PassHasWritesLeft

\* C26: while an aggregation pass iterates a window no step modifies that
\* window, and the iteration does not end in an aborted pass.
C26_NoIngestionDuringIteration ==
    [][aggregation_thread.pc = "iterating" =>
          /\ metrics_windows'[Head(aggregation_thread.todo)]
                = metrics_windows[Head(aggregation_thread.todo)]
          /\ DequeState' = DequeState
          /\ ~aggregation_thread'.aborted]_vars

\* C27: the aggregations stored for one window count, together, no more
\* samples than were ever put into the window: no sample is aggregated twice
\* for the same window.
C27_SampleAggregatedOncePerWindow ==
    \A w \in WindowNames :
        SamplesAggregated(silver_metrics, w) <= metrics_processed_count

====
